---- MODULE Spec2Model ----
(***************************************************************************)
(* A model of week1/main.py: the 1D grid world GridWorld1D (reset, step),  *)
(* the three scripted policies, run_episode and run_experiments.          *)
(*                                                                         *)
(* Rewards are floats in the source (10.0, -0.1, -0.2, -100.0); here they  *)
(* are integers counted in tenths, so 10.0 is 100 and -100.1 is -1001.     *)
(* None (an attribute not yet assigned a position) and Unset (a module     *)
(* global that no statement has assigned yet) are integers outside every   *)
(* range the program's values take.                                        *)
(***************************************************************************)
EXTENDS Integers, Sequences, FiniteSets, TLC

\* ---------------------------------------------------------------- bounds
MaxN == 3          \* largest N an environment is constructed with
MaxLimit == 2      \* largest step_limit an environment is constructed with
MaxSteps == 3      \* largest max_steps handed to run_episode
MaxTaken == 3      \* a client stops calling step once steps_taken is this

ExpN == 3              \* N of run_experiments' environment (10 in the source)
ExpLimit == 2          \* its step_limit (100 in the source)
EpisodesPerPolicy == 1 \* episodes_per_policy (50 in the source)
TwinN == 4             \* largest N of the paired episodes
TwinLimit == 4         \* largest step_limit of the paired episodes
ApiLimit == 3          \* largest step_limit when only reset and step are called
SweepN == 10           \* largest N of the deterministic policies' episodes
MaxDraws == 4          \* a seeded reset stops resampling after this many draws

\* ------------------------------------------------------- program constants
None == -9
Unset == -8
GoalReward == 100
CloserPenalty == -1
OtherPenalty == -2
TimeoutPenalty == -1000
ExperimentN == 10
ExperimentLimit == 100

Max(a, b) == IF a >= b THEN a ELSE b
Min(a, b) == IF a <= b THEN a ELSE b
Abs(a) == IF a < 0 THEN 0 - a ELSE a

Policies == <<"random_policy", "monotonous_policy", "wildcard_policy">>
PolicyNames == {Policies[i] : i \in 1..3}

VARIABLES
    env,           \* the GridWorld1D instance: N, step_limit, state, goal_state, steps_taken
    rng,           \* env.rng: whether it was seeded, and how many values it has produced
    globals,       \* the module globals monotonous_direction, wildcard_origin/extent/direction
    pc,            \* where control is
    driver,        \* who calls run_episode: "client" or "experiment"
    caller,        \* who called reset: "client" or "run_episode"
    start_state,   \* reset's local
    policy_fn, max_steps, t, total_return, state,   \* run_episode's arguments and locals
    ret,           \* what the last call of reset or step returned or raised
    result,        \* what the last call of run_episode returned, until the next call
    tape,          \* the values a seeded env.rng produced in the first run, in order
    run,           \* 1 in the first run of the program, 2 when it is run again
    policyIdx, episode, returns, steps_list,        \* run_experiments' loop state
    report,        \* the (sum, len) pairs run_experiments printed averages of
    firstReport,   \* the first run's report, kept to compare the second run with
    twin           \* a second episode that differs from the first in its goal only

envVars == <<env, rng, globals, start_state, ret, tape>>
runVars == <<policy_fn, max_steps, t, total_return, state, result>>
expVars == <<run, policyIdx, episode, returns, steps_list, report, firstReport>>
vars == <<envVars, runVars, expVars, pc, driver, caller, twin>>

\* ------------------------------------------------------------ GridWorld1D

\* GridWorld1D.__init__
NewEnv(n, limit) ==
    [N |-> n, step_limit |-> limit, state |-> None, goal_state |-> None, steps_taken |-> 0]

NoReturn == [op |-> "none", action |-> None, next_state |-> None, reward |-> 0,
             done |-> FALSE, raised |-> "none"]

\* rng.randrange(n) called as the (k+1)-th draw from now: the values it can return.
\* A seeded generator run again returns what it returned the first time.
DrawSet(n, k) ==
    IF rng.seeded /\ rng.pos + k < Len(tape) /\ tape[rng.pos + k + 1][1] = n
    THEN {tape[rng.pos + k + 1][2]}
    ELSE 0..(n - 1)

\* the generator and the record of its stream after the draws ds (pairs <<n, value>>)
RngAfter(ds) == [rng EXCEPT !.pos = IF rng.seeded THEN @ + Len(ds) ELSE @]
TapeAfter(ds) ==
    IF ~rng.seeded THEN tape
    ELSE [i \in 1..Max(Len(tape), rng.pos + Len(ds)) |->
            IF i > rng.pos /\ i <= rng.pos + Len(ds) THEN ds[i - rng.pos] ELSE tape[i]]

\* a move that is not kept inside the grid
MoveNoClamp(s, action, n) ==
    IF action = 0 THEN s - 1 ELSE s + 1

\* a move that turns back at a wall instead of staying
MoveBounce(s, action, n) ==
    IF action = 0 THEN (IF s = 0 THEN 1 ELSE s - 1)
    ELSE (IF s = n - 1 THEN n - 2 ELSE s + 1)

\* the move of step: left is floored at 0, right is capped at N - 1
Move(s, action, n) ==
    IF action = 0 THEN Max(s - 1, 0) ELSE Min(s + 1, n - 1)

\* a shaped penalty that takes an unchanged distance for an approach
ShapedRewardNonStrict(old_state, new_state, goal) ==
    IF Abs(new_state - goal) <= Abs(old_state - goal) THEN CloserPenalty ELSE OtherPenalty

\* the shaped step penalty of a step that did not reach the goal
ShapedReward(old_state, new_state, goal) ==
    IF Abs(new_state - goal) < Abs(old_state - goal) THEN CloserPenalty ELSE OtherPenalty

\* a step limit that ends the episode one step late
LimitReachedLate(taken, limit) == taken > limit

\* whether the step limit ends the episode
LimitReached(taken, limit) == taken >= limit

\* a step that accepts every action
ValidActionAny(action) == TRUE

\* whether step accepts the action
ValidAction(action) == action \in {0, 1}

\* a goal check that gives way to the step limit
AtGoalBeforeLimit(e) == e.state = e.goal_state /\ e.steps_taken < e.step_limit

\* step's goal check, made after the move and the increment of steps_taken
AtGoal(e) == e.state = e.goal_state

\* GridWorld1D.step: the environment after the call and what the call returned
step(e, action) ==
    IF ~ValidAction(action)
    THEN [env |-> e, ret |-> [NoReturn EXCEPT !.op = "step", !.action = action,
                                              !.raised = "AssertionError"]]
    ELSE IF e.state = None
    THEN [env |-> e, ret |-> [NoReturn EXCEPT !.op = "step", !.action = action,
                                              !.raised = "TypeError"]]
    ELSE
      LET old_state == e.state
          new_state == Move(e.state, action, e.N)
          taken == e.steps_taken + 1
          e2 == [e EXCEPT !.state = new_state, !.steps_taken = taken]
          out(r, d) == [op |-> "step", action |-> action, next_state |-> new_state,
                        reward |-> r, done |-> d, raised |-> "none"]
      IN  IF AtGoal(e2)
          THEN [env |-> e2, ret |-> out(GoalReward, TRUE)]
          ELSE LET reward == ShapedReward(old_state, new_state, e.goal_state)
               IN  IF LimitReached(taken, e.step_limit)
                   THEN [env |-> e2, ret |-> out(reward + TimeoutPenalty, TRUE)]
                   ELSE [env |-> e2, ret |-> out(reward, FALSE)]

\* ---------------------------------------------------------------- policies
\* A policy is called with the state and the environment object, which it could read
\* and write; a call yields the action, the module globals and the environment after it.

\* a random policy that looks at the goal before it draws
random_policy_peek(s, e, g, r) ==
    [env |-> e, action |-> IF e.goal_state > s THEN 1 ELSE r, globals |-> g]

random_policy(s, e, g, r) == [env |-> e, action |-> r, globals |-> g]

\* a monotonous policy that turns at a wall without remembering that it turned
monotonous_policy_noflip(s, e, g) ==
    LET dir == g.monotonous_direction
    IN  IF dir = 0
        THEN [env |-> e, action |-> IF s = 0 THEN 1 ELSE 0, globals |-> g]
        ELSE [env |-> e, action |-> IF s = e.N - 1 THEN 0 ELSE 1, globals |-> g]

\* a monotonous policy that runs into the wall once before it turns
monotonous_policy_bump(s, e, g) ==
    LET dir == g.monotonous_direction
    IN  IF dir = 0
        THEN [env |-> e, action |-> 0,
              globals |-> IF s = 0 THEN [g EXCEPT !.monotonous_direction = 1] ELSE g]
        ELSE [env |-> e, action |-> 1,
              globals |-> IF s = e.N - 1 THEN [g EXCEPT !.monotonous_direction = 0]
                          ELSE g]

monotonous_policy(s, e, g) ==
    LET dir == g.monotonous_direction
    IN  IF dir = 0
        THEN IF s = 0
             THEN [env |-> e, action |-> 1, globals |-> [g EXCEPT !.monotonous_direction = 1]]
             ELSE [env |-> e, action |-> 0, globals |-> g]
        ELSE IF dir = 1
        THEN IF s = e.N - 1
             THEN [env |-> e, action |-> 0, globals |-> [g EXCEPT !.monotonous_direction = 0]]
             ELSE [env |-> e, action |-> 1, globals |-> g]
        ELSE [env |-> e, action |-> None, globals |-> g]

\* a wildcard policy that sets its globals up only while they were never assigned
wildcard_policy_once(s, e, g) ==
    IF e.steps_taken = 0 /\ g.wildcard_origin = Unset
    THEN [env |-> e, action |-> 1,
          globals |-> [g EXCEPT !.wildcard_origin = s, !.wildcard_extent = 1,
                                !.wildcard_direction = 1]]
    ELSE [env |-> e, action |-> 1, globals |-> g]

\* a wildcard policy whose sweep never widens
wildcard_policy_narrow(s, e, g) ==
    IF e.steps_taken = 0
    THEN [env |-> e, action |-> 1,
          globals |-> [g EXCEPT !.wildcard_origin = s, !.wildcard_extent = 1,
                                !.wildcard_direction = 1]]
    ELSE
      LET target == Max(0, Min(e.N - 1,
                        g.wildcard_origin + g.wildcard_direction * g.wildcard_extent))
          g2 == IF s = target
                THEN IF g.wildcard_direction = 1
                     THEN [g EXCEPT !.wildcard_direction = -1]
                     ELSE [g EXCEPT !.wildcard_direction = 1]
                ELSE g
      IN  IF s < target THEN [env |-> e, action |-> 1, globals |-> g2]
          ELSE IF s > target THEN [env |-> e, action |-> 0, globals |-> g2]
          ELSE [env |-> e, action |-> IF g2.wildcard_direction = 1 THEN 1 ELSE 0, globals |-> g2]

\* a wildcard policy whose target may lie outside the grid
wildcard_policy_noclamp(s, e, g) ==
    IF e.steps_taken = 0
    THEN [env |-> e, action |-> 1,
          globals |-> [g EXCEPT !.wildcard_origin = s, !.wildcard_extent = 1,
                                !.wildcard_direction = 1]]
    ELSE
      LET target == g.wildcard_origin + g.wildcard_direction * g.wildcard_extent
          g2 == IF s = target
                THEN IF g.wildcard_direction = 1
                     THEN [g EXCEPT !.wildcard_direction = -1]
                     ELSE [g EXCEPT !.wildcard_direction = 1,
                                    !.wildcard_extent = @ + 1]
                ELSE g
      IN  IF s < target THEN [env |-> e, action |-> 1, globals |-> g2]
          ELSE IF s > target THEN [env |-> e, action |-> 0, globals |-> g2]
          ELSE [env |-> e, action |-> IF g2.wildcard_direction = 1 THEN 1 ELSE 0, globals |-> g2]

wildcard_policy(s, e, g) ==
    IF e.steps_taken = 0
    THEN [env |-> e, action |-> 1,
          globals |-> [g EXCEPT !.wildcard_origin = s, !.wildcard_extent = 1,
                                !.wildcard_direction = 1]]
    ELSE
      LET target == Max(0, Min(e.N - 1,
                        g.wildcard_origin + g.wildcard_direction * g.wildcard_extent))
          g2 == IF s = target
                THEN IF g.wildcard_direction = 1
                     THEN [g EXCEPT !.wildcard_direction = -1]
                     ELSE [g EXCEPT !.wildcard_direction = 1,
                                    !.wildcard_extent = @ + 1]
                ELSE g
      IN  IF s < target THEN [env |-> e, action |-> 1, globals |-> g2]
          ELSE IF s > target THEN [env |-> e, action |-> 0, globals |-> g2]
          ELSE [env |-> e, action |-> IF g2.wildcard_direction = 1 THEN 1 ELSE 0, globals |-> g2]

\* policy_fn(state, env): r is the value env.rng.randrange(2) returns if it is called
Decide(fn, s, e, g, r) ==
    IF fn = "random_policy" THEN random_policy(s, e, g, r)
    ELSE IF fn = "monotonous_policy" THEN monotonous_policy(s, e, g)
    ELSE wildcard_policy(s, e, g)

\* the draws a policy call makes from env.rng
PolicyDraws(fn, r) == IF fn = "random_policy" THEN <<<<2, r>>>> ELSE <<>>
PolicyDrawSet(fn) == IF fn = "random_policy" THEN DrawSet(2, 0) ELSE {0}

NoGlobals == [monotonous_direction |-> Unset, wildcard_origin |-> Unset,
              wildcard_extent |-> Unset, wildcard_direction |-> Unset]

\* no value of run_episode is held
NoResult == <<0, 0>>

NoTwin == [active |-> FALSE]

\* ------------------------------------------------------------------ reset

\* where control goes when run_episode returns or raises
AfterEpisode == IF driver = "experiment" THEN "collect" ELSE "idle"

\* GridWorld1D.reset up to its loop: goal_state and the first start_state are drawn.
\* randrange(0) raises ValueError, which nothing in the program catches.
BeginReset(who) ==
    IF env.N <= 0
    THEN /\ ret' = [NoReturn EXCEPT !.op = "reset", !.raised = "ValueError"]
         /\ pc' = IF driver = "experiment" THEN "crashed" ELSE "idle"
         /\ UNCHANGED <<env, rng, tape, start_state, caller>>
    ELSE \E g \in DrawSet(env.N, 0) : \E s \in DrawSet(env.N, 1) :
         /\ env' = [env EXCEPT !.goal_state = g]
         /\ start_state' = s
         /\ rng' = RngAfter(<< <<env.N, g>>, <<env.N, s>> >>)
         /\ tape' = TapeAfter(<< <<env.N, g>>, <<env.N, s>> >>)
         /\ caller' = who
         /\ pc' = "reset_loop"
         /\ UNCHANGED ret

\* a reset that keeps the first start_state it draws
NeverResample(s, goal) == FALSE

\* a reset that is never satisfied with the start_state it drew
AlwaysResample(s, goal) == TRUE

\* the condition of reset's while loop
MustResample(s, goal) == s = goal

\* one pass of reset's while loop: start_state is drawn again
ResetResample ==
    /\ pc = "reset_loop"
    /\ MustResample(start_state, env.goal_state)
    /\ rng.seeded => rng.pos < MaxDraws
    /\ \E s \in DrawSet(env.N, 0) :
         /\ start_state' = s
         /\ rng' = RngAfter(<< <<env.N, s>> >>)
         /\ tape' = TapeAfter(<< <<env.N, s>> >>)
    /\ UNCHANGED <<env, globals, ret, runVars, expVars, pc, driver, caller, twin>>

\* the end of reset: the position and the step counter are set, the position returned
ResetReturn ==
    /\ pc = "reset_loop"
    /\ ~MustResample(start_state, env.goal_state)
    /\ env' = [env EXCEPT !.state = start_state, !.steps_taken = 0]
    /\ ret' = [NoReturn EXCEPT !.op = "reset", !.next_state = env'.state]
    /\ start_state' = None
    /\ IF caller = "client"
       THEN pc' = "idle" /\ UNCHANGED state
       ELSE pc' = "episode_init" /\ state' = env'.state
    /\ UNCHANGED <<rng, globals, tape, policy_fn, max_steps, t, total_return, result,
                   expVars, driver, caller, twin>>

\* ------------------------------------------------------------ run_episode

\* run_episode after reset returned: the monotonous direction is drawn from the
\* random module's own generator (not env.rng), the return starts at 0.0
EpisodeInit ==
    /\ pc = "episode_init"
    /\ \E d \in 0..1 : globals' = [globals EXCEPT !.monotonous_direction = d]
    /\ total_return' = 0
    /\ t' = 0
    /\ pc' = "loop"
    /\ UNCHANGED <<env, rng, start_state, ret, tape, policy_fn, max_steps, state, result,
                   expVars, driver, caller, twin>>

\* one pass of run_episode's loop: the policy decides, the environment steps
LoopIterate ==
    /\ pc = "loop"
    /\ t < max_steps
    /\ \E r \in PolicyDrawSet(policy_fn) :
         LET d == Decide(policy_fn, state, env, globals, r)
             s == step(d.env, d.action)
         IN  /\ globals' = d.globals
             /\ rng' = RngAfter(PolicyDraws(policy_fn, r))
             /\ tape' = TapeAfter(PolicyDraws(policy_fn, r))
             /\ env' = s.env
             /\ ret' = s.ret
             /\ IF s.ret.raised # "none"
                THEN /\ pc' = IF driver = "experiment" THEN "crashed" ELSE "idle"
                     /\ UNCHANGED <<total_return, state, t, result, policy_fn, max_steps>>
                ELSE IF s.ret.done
                THEN /\ result' = <<total_return + s.ret.reward, t + 1>>
                     /\ pc' = AfterEpisode
                     /\ total_return' = 0 /\ t' = 0 /\ state' = None
                     /\ policy_fn' = "none" /\ max_steps' = 0
                ELSE /\ total_return' = total_return + s.ret.reward
                     /\ state' = s.ret.next_state
                     /\ t' = t + 1
                     /\ pc' = "loop"
                     /\ UNCHANGED <<result, policy_fn, max_steps>>
    /\ UNCHANGED <<start_state, expVars, driver, caller, twin>>

\* a runner that charges the time-out penalty itself when its loop runs out
LoopExitPenalty ==
    /\ pc = "loop"
    /\ t >= max_steps
    /\ result' = <<total_return + TimeoutPenalty, max_steps>>
    /\ pc' = AfterEpisode
    /\ total_return' = 0 /\ t' = 0 /\ state' = None
    /\ policy_fn' = "none" /\ max_steps' = 0
    /\ UNCHANGED <<envVars, expVars, driver, caller, twin>>

\* run_episode's loop ran max_steps times without a terminal step
LoopExit ==
    /\ pc = "loop"
    /\ t >= max_steps
    /\ result' = <<total_return, max_steps>>
    /\ pc' = AfterEpisode
    /\ total_return' = 0 /\ t' = 0 /\ state' = None
    /\ policy_fn' = "none" /\ max_steps' = 0
    /\ UNCHANGED <<envVars, expVars, driver, caller, twin>>

\* ----------------------------------------------------------------- client
\* A client of the module: it constructs an environment and calls reset, step and
\* run_episode in any order, with any argument.

ClientActions == {0, 1, 2, None}

CallReset ==
    /\ pc = "idle"
    /\ BeginReset("client")
    /\ result' = NoResult
    /\ UNCHANGED <<globals, policy_fn, max_steps, t, total_return, state, expVars,
                   driver, twin>>

CallStep ==
    /\ pc = "idle"
    /\ env.steps_taken < MaxTaken
    /\ \E a \in ClientActions :
         /\ env' = step(env, a).env
         /\ ret' = step(env, a).ret
    /\ result' = NoResult
    /\ UNCHANGED <<rng, globals, start_state, tape, policy_fn, max_steps, t,
                   total_return, state, expVars, pc, driver, caller, twin>>

CallRunEpisode ==
    /\ pc = "idle"
    /\ \E fn \in PolicyNames : \E m \in 0..MaxSteps :
         /\ policy_fn' = fn
         /\ max_steps' = m
    /\ BeginReset("run_episode")
    /\ result' = NoResult
    /\ UNCHANGED <<globals, t, total_return, state, expVars, driver, twin>>

\* the locals of functions not yet called, the globals not yet assigned
InitRest ==
    /\ globals = NoGlobals
    /\ start_state = None
    /\ policy_fn = "none"
    /\ max_steps = 0
    /\ t = 0
    /\ total_return = 0
    /\ state = None
    /\ ret = NoReturn
    /\ result = NoResult
    /\ tape = <<>>
    /\ run = 1
    /\ policyIdx = 1
    /\ episode = 0
    /\ returns = <<>>
    /\ steps_list = <<>>
    /\ report = <<>>
    /\ firstReport = <<>>

Init ==
    /\ env \in {NewEnv(n, l) : n \in 0..MaxN, l \in 1..MaxLimit}
    /\ rng = [seeded |-> FALSE, pos |-> 0]
    /\ pc = "idle"
    /\ driver = "client"
    /\ caller = "client"
    /\ InitRest
    /\ twin = NoTwin

Next ==
    \/ CallReset
    \/ CallStep
    \/ CallRunEpisode
    \/ ResetResample
    \/ ResetReturn
    \/ EpisodeInit
    \/ LoopIterate
    \/ LoopExit

Spec == Init /\ [][Next]_vars

\* ------------------------------------------------------- reset and step alone
\* A client that only calls reset and step. The interpreter keeps running whatever
\* can run (weak fairness of reset's two continuations), and the generator is fair:
\* a loop that keeps drawing from randrange(N), N >= 2, does not draw the goal for
\* ever (strong fairness of the draw of another value). Drawing the same value
\* again changes nothing in the state, so it is the draw of another value that
\* counts as a step of the loop.

InitApi ==
    /\ env \in {NewEnv(n, l) : n \in 0..MaxN, l \in 1..ApiLimit}
    /\ rng = [seeded |-> FALSE, pos |-> 0]
    /\ pc = "idle"
    /\ driver = "client"
    /\ caller = "client"
    /\ InitRest
    /\ twin = NoTwin

NextApi ==
    \/ CallReset
    \/ CallStep
    \/ ResetResample
    \/ ResetReturn

SpecApi ==
    /\ InitApi
    /\ [][NextApi]_vars
    /\ WF_vars(ResetReturn)
    /\ WF_vars(ResetResample)
    /\ SF_vars(ResetResample /\ start_state' # env.goal_state)

\* --------------------------------------------------------- run_experiments
\* The program itself: run_experiments builds one environment with a fixed seed and
\* runs episodes_per_policy episodes of each policy on it, with max_steps = step_limit.
\* The grid, the step limit and the number of episodes are the bounds above, not the
\* source's 10, 100 and 50.

RECURSIVE Sum(_)
Sum(xs) == IF xs = <<>> THEN 0 ELSE Head(xs) + Sum(Tail(xs))

\* the body of the inner for loop up to the call of run_episode
ExpStartEpisode ==
    /\ pc = "exp"
    /\ policyIdx <= Len(Policies)
    /\ episode < EpisodesPerPolicy
    /\ policy_fn' = Policies[policyIdx]
    /\ max_steps' = env.step_limit
    /\ BeginReset("run_episode")
    /\ UNCHANGED <<globals, t, total_return, state, result, expVars, driver, twin>>

\* run_episode returned: returns.append(G), steps_list.append(steps)
ExpCollect ==
    /\ pc = "collect"
    /\ returns' = Append(returns, result[1])
    /\ steps_list' = Append(steps_list, result[2])
    /\ episode' = episode + 1
    /\ pc' = "exp"
    /\ UNCHANGED <<envVars, runVars, run, policyIdx, report, firstReport, driver,
                   caller, twin>>

\* the inner loop is over: the averages of this policy are printed (kept here as the
\* sums and the length they are the quotient of), the outer loop moves on
ExpReport ==
    /\ pc = "exp"
    /\ policyIdx <= Len(Policies)
    /\ episode = EpisodesPerPolicy
    /\ report' = Append(report, <<Policies[policyIdx], Sum(returns), Sum(steps_list),
                                  Len(returns)>>)
    /\ returns' = <<>>
    /\ steps_list' = <<>>
    /\ episode' = 0
    /\ policyIdx' = policyIdx + 1
    /\ UNCHANGED <<envVars, runVars, run, firstReport, pc, driver, caller, twin>>

\* run_experiments has returned and the program is run a second time: a new process,
\* a new environment, the same seed
ExpRerun ==
    /\ pc = "exp"
    /\ policyIdx > Len(Policies)
    /\ run = 1
    /\ run' = 2
    /\ firstReport' = report
    /\ report' = <<>>
    /\ policyIdx' = 1
    /\ env' = NewEnv(env.N, env.step_limit)
    /\ rng' = [seeded |-> TRUE, pos |-> 0]
    /\ globals' = NoGlobals
    /\ ret' = NoReturn
    /\ result' = NoResult
    /\ UNCHANGED <<start_state, tape, policy_fn, max_steps, t, total_return, state,
                   episode, returns, steps_list, pc, driver, caller, twin>>

InitExp ==
    /\ env = NewEnv(ExpN, ExpLimit)
    /\ rng = [seeded |-> TRUE, pos |-> 0]
    /\ pc = "exp"
    /\ driver = "experiment"
    /\ caller = "run_episode"
    /\ InitRest
    /\ twin = NoTwin

\* LoopExit is no step of the program run this way: max_steps = step_limit >= 1, and
\* the loop is left by a terminal step before t reaches max_steps (ExpLoopOpen).
NextExp ==
    \/ ExpStartEpisode
    \/ ExpCollect
    \/ ExpReport
    \/ ExpRerun
    \/ ResetResample
    \/ ResetReturn
    \/ EpisodeInit
    \/ LoopIterate

SpecSeeded == InitExp /\ [][NextExp]_vars

\* in run_experiments' episodes the loop never runs out of iterations
ExpLoopOpen == pc = "loop" => t < max_steps

\* ------------------------------------------- episodes of the scripted sweeps
\* run_episode called the way run_experiments calls it (max_steps = env.step_limit)
\* with one of the two policies that draw nothing from the generator, as the first
\* episode of a process, on every grid of 2..SweepN cells and with step_limit either
\* run_experiments' 100 or max(1, 2N - 3).

SweepRunEpisode ==
    /\ pc = "idle"
    /\ ret.op = "none"
    /\ \E fn \in {"monotonous_policy", "wildcard_policy"} : policy_fn' = fn
    /\ max_steps' = env.step_limit
    /\ BeginReset("run_episode")
    /\ UNCHANGED <<globals, t, total_return, state, result, expVars, driver, twin>>

InitSweep ==
    /\ \E n \in 2..SweepN :
         \E l \in {Max(1, 2 * n - 3), ExperimentLimit} : env = NewEnv(n, l)
    /\ rng = [seeded |-> FALSE, pos |-> 0]
    /\ pc = "idle"
    /\ driver = "client"
    /\ caller = "client"
    /\ InitRest
    /\ twin = NoTwin

\* LoopExit is no step here either: max_steps = step_limit >= 1 (ExpLoopOpen)
NextSweep ==
    \/ SweepRunEpisode
    \/ ResetResample
    \/ ResetReturn
    \/ EpisodeInit
    \/ LoopIterate

SpecSweep == InitSweep /\ [][NextSweep]_vars

\* ---------------------------------------------------------- paired episodes
\* Two runs of run_episode's loop side by side, a and b: the same policy, the same
\* grid, the same start and the same values drawn, but different goals (or, with
\* TwinBeginLeftover, different module globals left by what ran before). Each side has its own environment object and its own globals.

\* the module globals when an episode starts: never assigned, or left by earlier episodes
GlobalsAtStart(n) ==
    {NoGlobals} \cup
    [monotonous_direction : 0..1, wildcard_origin : 0..(n - 1),
     wildcard_extent : 1..2, wildcard_direction : {-1, 1}]

\* one side after env.reset() returned start s with goal goal, and after
\* monotonous_direction was drawn as d
TwinSide(n, limit, s, goal, g, d) ==
    [env |-> [N |-> n, step_limit |-> limit, state |-> s, goal_state |-> goal,
              steps_taken |-> 0],
     globals |-> [g EXCEPT !.monotonous_direction = d],
     state |-> s, action |-> None, done |-> FALSE]

\* run_episode up to its loop, on both sides
TwinBegin ==
    /\ twin.phase = "start"
    /\ \E n \in 3..TwinN : \E limit \in 1..TwinLimit : \E fn \in PolicyNames :
       \E s \in 0..(n - 1) : \E ga \in 0..(n - 1) : \E gb \in 0..(n - 1) :
       \E g \in GlobalsAtStart(n) : \E d \in 0..1 :
         /\ ga # s /\ gb # s /\ ga # gb
         /\ twin' = [phase |-> "decide", kind |-> "goal", policy_fn |-> fn,
                     leftover |-> g,
                     a |-> TwinSide(n, limit, s, ga, g, d),
                     b |-> TwinSide(n, limit, s, gb, g, d)]
    /\ UNCHANGED <<envVars, runVars, expVars, pc, driver, caller>>

\* run_episode up to its loop, on both sides, for two episodes that differ in what
\* came before them only: a is the first episode of the process, b follows earlier
\* episodes that left g in the module globals
TwinBeginLeftover ==
    /\ twin.phase = "start"
    /\ \E n \in 3..TwinN : \E limit \in 1..TwinLimit : \E fn \in PolicyNames :
       \E s \in 0..(n - 1) : \E goal \in 0..(n - 1) :
       \E g \in GlobalsAtStart(n) : \E d \in 0..1 :
         /\ goal # s
         /\ twin' = [phase |-> "decide", kind |-> "globals", policy_fn |-> fn,
                     leftover |-> g,
                     a |-> TwinSide(n, limit, s, goal, NoGlobals, d),
                     b |-> TwinSide(n, limit, s, goal, g, d)]
    /\ UNCHANGED <<envVars, runVars, expVars, pc, driver, caller>>

\* one side after action = policy_fn(state, env), r being the value drawn
SideDecide(fn, side, r) ==
    LET d == Decide(fn, side.state, side.env, side.globals, r)
    IN  [side EXCEPT !.env = d.env, !.globals = d.globals, !.action = d.action]

\* one side after next_state, reward, done = env.step(action); state = next_state
SideStep(side) ==
    LET s == step(side.env, side.action)
    IN  [side EXCEPT !.env = s.env, !.state = s.ret.next_state, !.done = s.ret.done]

\* the policy is called on both sides, the generator returning the same value
TwinDecide ==
    /\ twin.phase = "decide"
    /\ \E r \in IF twin.policy_fn = "random_policy" THEN 0..1 ELSE {0} :
         twin' = [twin EXCEPT !.phase = "step",
                              !.a = SideDecide(twin.policy_fn, twin.a, r),
                              !.b = SideDecide(twin.policy_fn, twin.b, r)]
    /\ UNCHANGED <<envVars, runVars, expVars, pc, driver, caller>>

\* both sides step; the comparison ends with the first terminal step
TwinStep ==
    /\ twin.phase = "step"
    /\ LET a2 == SideStep(twin.a)
           b2 == SideStep(twin.b)
       IN  twin' = [twin EXCEPT !.a = a2, !.b = b2,
                                !.phase = IF a2.done \/ b2.done THEN "over" ELSE "decide"]
    /\ UNCHANGED <<envVars, runVars, expVars, pc, driver, caller>>

InitTwin ==
    /\ env = NewEnv(TwinN, TwinLimit)
    /\ rng = [seeded |-> FALSE, pos |-> 0]
    /\ pc = "idle"
    /\ driver = "client"
    /\ caller = "client"
    /\ InitRest
    /\ twin = [phase |-> "start"]

NextTwin ==
    \/ TwinBegin
    \/ TwinBeginLeftover
    \/ TwinDecide
    \/ TwinStep

SpecTwin == InitTwin /\ [][NextTwin]_vars

\* ------------------------------------------------------------------ claims

\* a call of step that got past the assertion and moved: only step adds 1 to steps_taken
StepTaken == env'.steps_taken = env.steps_taken + 1

\* C1: on an environment with N >= 2, once reset has set them, the position and the
\* goal are in 0..N-1 in every reachable state, whatever steps were made.
C1_PositionsInRange ==
    env.N >= 2 =>
        /\ env.goal_state # None => env.goal_state \in 0..(env.N - 1)
        /\ env.state # None => env.state \in 0..(env.N - 1)

\* C1 witness: a step to the right was made at the right wall, after an earlier step
C1_Witness ==
    /\ env.N >= 2 /\ ret.op = "step" /\ ret.raised = "none" /\ ret.action = 1
    /\ env.state = env.N - 1 /\ env.steps_taken >= 2 /\ env.goal_state # env.state

\* C2: every step that leaves the position on the goal returns (position, +10.0, True),
\* also when that step brings steps_taken to step_limit or beyond.
C2_GoalReward ==
    [][StepTaken /\ env'.state = env'.goal_state =>
          /\ ret'.op = "step" /\ ret'.raised = "none"
          /\ ret'.next_state = env'.state
          /\ ret'.reward = 100
          /\ ret'.done]_vars

\* C2 witness: the goal was reached by the step that exhausted the step limit
C2_Witness ==
    /\ ret.op = "step" /\ ret.done /\ ret.reward = 100
    /\ ret.next_state = env.state /\ env.state = env.goal_state
    /\ env.steps_taken >= env.step_limit /\ env.step_limit >= 2

\* C3: a step that does not reach the goal returns a shaped penalty plus -100.0 and
\* terminal=true when steps_taken has reached step_limit, and the shaped penalty alone
\* and terminal=false when it has not.
C3_StepLimit ==
    [][StepTaken /\ env'.state # env'.goal_state =>
          /\ ret'.op = "step" /\ ret'.raised = "none"
          /\ IF env'.steps_taken >= env'.step_limit
             THEN ret'.done /\ ret'.reward \in {-1 - 1000, -2 - 1000}
             ELSE ~ret'.done /\ ret'.reward \in {-1, -2}]_vars

\* C3 witness: the step limit ended an episode away from the goal
C3_Witness ==
    /\ ret.op = "step" /\ ret.done /\ ret.reward \in {-1001, -1002}
    /\ env.state # env.goal_state /\ env.steps_taken = env.step_limit
    /\ env.step_limit >= 2

\* C4: a step that does not reach the goal is charged -0.1 exactly when it ends
\* strictly closer to the goal than it started, and -0.2 otherwise.
C4_ShapedReward ==
    [][StepTaken /\ env'.state # env'.goal_state =>
          LET old_dist == IF env.state >= env.goal_state THEN env.state - env.goal_state
                          ELSE env.goal_state - env.state
              new_dist == IF env'.state >= env.goal_state THEN env'.state - env.goal_state
                          ELSE env.goal_state - env'.state
              shaped == IF ret'.done THEN ret'.reward + 1000 ELSE ret'.reward
          IN  shaped = IF new_dist < old_dist THEN -1 ELSE -2]_vars

\* C4 witness: a step to the left that ended at the left wall, the goal elsewhere, was
\* charged -0.2 and did not end the episode
C4_Witness ==
    /\ ret.op = "step" /\ ret.raised = "none" /\ ret.action = 0 /\ ret.reward = -2
    /\ env.state = 0 /\ ret.next_state = 0 /\ env.goal_state > 0 /\ ~ret.done

\* C5: when reset returns, first or repeated, the position differs from the goal it
\* drew, steps_taken is 0 and the value returned is the stored position.
C5_ResetDistinct ==
    [][pc = "reset_loop" /\ pc' # "reset_loop" =>
          /\ env'.state # env'.goal_state
          /\ env'.steps_taken = 0
          /\ ret'.op = "reset" /\ ret'.raised = "none"
          /\ ret'.next_state = env'.state]_vars

\* C5 witness: reset has returned on an environment that an earlier wildcard episode used
C5_Witness ==
    /\ pc = "idle" /\ ret.op = "reset" /\ caller = "client"
    /\ globals.wildcard_extent # Unset
    /\ env.steps_taken = 0 /\ env.state # env.goal_state

\* C6: while run_episode's loop is open steps_taken is below step_limit, and the step
\* that brings steps_taken to step_limit returns terminal=true.
C6_StepsBelowLimit ==
    /\ [](pc = "loop" => env.steps_taken < env.step_limit)
    /\ [][pc = "loop" /\ StepTaken /\ env'.steps_taken = env'.step_limit =>
            ret'.done /\ pc' # "loop"]_vars

\* C6 witness: run_episode returned from the step that reached the step limit
C6_Witness ==
    /\ pc = "idle" /\ ret.op = "step" /\ ret.done /\ env.state # env.goal_state
    /\ env.steps_taken = env.step_limit /\ result[2] = env.step_limit
    /\ env.step_limit >= 2

\* C7: step called with an action other than 0 and 1 raises and leaves the position,
\* the goal and steps_taken as they were.
C7_InvalidAction ==
    [][ret' # ret /\ ret'.op = "step" /\ ret'.action \notin {0, 1} =>
          ret'.raised = "AssertionError" /\ env' = env]_vars

\* C7 witness: step raised on an environment in the middle of an episode
C7_Witness ==
    /\ ret.op = "step" /\ ret.raised = "AssertionError" /\ ret.action = 2
    /\ env.state # None /\ env.steps_taken > 0

\* C8: no environment with N < 2 gets as far as reset (the constructor would have
\* refused it).
C8_SmallSizeRejected ==
    (pc = "reset_loop" \/ ret.op = "reset") => env.N >= 2

\* C9: with a fixed seed two runs of run_experiments give the same results for all
\* three policies: when the second run has finished, its report is the first run's.
C9_SeededRunsAgree ==
    (run = 2 /\ pc = "exp" /\ policyIdx > Len(Policies)) => report = firstReport

\* C10: no policy decision depends on the goal: in two episodes that differ in the
\* goal only, the policy returns the same action at every step until one of them has
\* ended; and no policy call changes the environment's state, goal_state or steps_taken.
C10_GoalNotObserved ==
    /\ [](twin.phase = "step" => twin.a.action = twin.b.action)
    /\ [][twin.phase = "decide" /\ twin'.phase = "step" =>
            twin'.a.env = twin.a.env /\ twin'.b.env = twin.b.env]_vars

\* C10 witness: the wildcard policy has decided for the third time in two episodes
\* with different goals, after one side moved towards its goal and the other away
C10_Witness ==
    /\ twin.phase = "step" /\ twin.policy_fn = "wildcard_policy"
    /\ twin.a.env.steps_taken = 2 /\ twin.b.env.steps_taken = 2
    /\ twin.a.env.goal_state > twin.a.env.state
    /\ twin.b.env.goal_state < twin.b.env.state
    /\ twin.a.action \in {0, 1}

\* C11: run_episode returns (total_return, k): total_return is the sum of the rewards
\* its step calls returned, starting from 0.0, and k the number of those calls; k is
\* t + 1 = steps_taken when a step was terminal, and max_steps when the loop ran out,
\* in which case nothing is added to the sum.
C11_EpisodeResult ==
    /\ [](pc = "loop" => t = env.steps_taken /\ (t = 0 => total_return = 0))
    /\ [][pc = "loop" /\ pc' = "loop" =>
            /\ StepTaken
            /\ t' = t + 1
            /\ total_return' = total_return + ret'.reward]_vars
    /\ [][pc = "loop" /\ pc' # "loop" /\ StepTaken =>
            /\ ret'.done
            /\ result' = <<total_return + ret'.reward, t + 1>>
            /\ result'[2] = env'.steps_taken]_vars
    /\ [][pc = "loop" /\ pc' # "loop" /\ ~StepTaken =>
            /\ t = max_steps
            /\ env' = env
            /\ result' = <<total_return, max_steps>>]_vars

\* C11 witness: an episode of two steps, -0.1 and then +10.0, returned (9.9, 2)
C11_Witness ==
    /\ pc = "idle" /\ result = <<99, 2>> /\ ret.done /\ ret.reward = 100
    /\ env.steps_taken = 2

\* C12: when max_steps >= step_limit, run_episode's loop is never left by running out
\* of iterations: it is left by a terminal step.
C12_NoFallThrough ==
    /\ [](pc = "loop" /\ max_steps >= env.step_limit => t < max_steps)
    /\ [][pc = "loop" /\ max_steps >= env.step_limit /\ pc' # "loop" =>
            StepTaken /\ ret'.op = "step" /\ ret'.done]_vars

\* C12 witness: the last open pass of a loop with max_steps above step_limit, on an
\* environment that an earlier episode used
C12_Witness ==
    /\ pc = "loop" /\ max_steps > env.step_limit /\ t = env.step_limit - 1 /\ t >= 1
    /\ globals.wildcard_origin # Unset /\ policy_fn = "monotonous_policy"

\* C16: at the first decision of an episode (steps_taken = 0) the wildcard policy
\* returns right and sets origin = state, extent = 1, direction = +1, whatever they
\* were; at every later decision it leaves origin as it is.
C16_WildcardFirstDecision ==
    [][pc = "loop" /\ policy_fn = "wildcard_policy" /\ StepTaken =>
          IF env.steps_taken = 0
          THEN /\ ret'.action = 1
               /\ globals'.wildcard_origin = state
               /\ globals'.wildcard_extent = 1
               /\ globals'.wildcard_direction = 1
          ELSE globals'.wildcard_origin = globals.wildcard_origin]_vars

\* C16 witness: the first decision of a wildcard episode has been made and the step
\* to the right taken
C16_Witness ==
    /\ pc = "loop" /\ policy_fn = "wildcard_policy" /\ t = 1
    /\ ret.action = 1 /\ globals.wildcard_origin = state - 1
    /\ globals.wildcard_extent = 1 /\ globals.wildcard_direction = 1

\* the policy state an episode works with
PolicyState(side) ==
    <<side.globals.monotonous_direction, side.globals.wildcard_origin,
      side.globals.wildcard_extent, side.globals.wildcard_direction>>

\* C13: policy state is scoped to one episode: an episode that follows earlier
\* episodes chooses the same actions as the same episode run first in its process,
\* whatever the earlier episodes left in monotonous_direction and wildcard_origin,
\* wildcard_extent, wildcard_direction; for the wildcard policy the two agree on all of
\* its state from the first decision on.
C13_PolicyStatePerEpisode ==
    [](twin.phase = "step" /\ twin.kind = "globals" =>
          /\ twin.a.action = twin.b.action
          /\ twin.a.action \in {0, 1}
          /\ twin.a.globals.monotonous_direction = twin.b.globals.monotonous_direction
          /\ twin.policy_fn = "wildcard_policy" =>
                PolicyState(twin.a) = PolicyState(twin.b))

\* C13 witness: the third decision of a wildcard episode that started with the
\* globals an earlier episode left at extent 2, direction -1
C13_Witness ==
    /\ twin.phase = "step" /\ twin.kind = "globals"
    /\ twin.policy_fn = "wildcard_policy"
    /\ twin.leftover.wildcard_extent = 2 /\ twin.leftover.wildcard_direction = -1
    /\ twin.leftover.wildcard_origin # twin.b.globals.wildcard_origin
    /\ twin.b.env.steps_taken = 2

\* a call of step that returned, told by what it returned and not by steps_taken
StepCall ==
    /\ pc \in {"idle", "loop"} /\ pc' # "reset_loop"
    /\ ret'.op = "step" /\ ret'.raised = "none"
    /\ (env' # env \/ ret' # ret)

\* C14: step(left) at position 0 and step(right) at position N-1 leave the position
\* where it is and add exactly 1 to steps_taken; when the goal is not that cell and
\* the step limit is not reached they return -0.2 and terminal=false, every time.
C14_WallNoOp ==
    [][StepCall /\ (\/ ret'.action = 0 /\ env.state = 0
                    \/ ret'.action = 1 /\ env.state = env.N - 1) =>
          /\ env'.state = env.state
          /\ env'.steps_taken = env.steps_taken + 1
          /\ env'.goal_state = env.goal_state
          /\ (env.goal_state # env.state /\ env'.steps_taken < env.step_limit) =>
                (ret'.reward = -2 /\ ~ret'.done /\ ret'.next_state = env.state)]_vars

\* C14 witness: the first step after reset, to the left at position 0 with the goal
\* in cell 1, was charged -0.2 and left the episode open
C14_Witness ==
    /\ ret.op = "step" /\ ret.action = 0 /\ ret.reward = -2 /\ ~ret.done
    /\ env.state = 0 /\ env.goal_state = 1 /\ env.steps_taken = 1 /\ env.N = 3

\* C18: with N >= 2 and a fair generator reset leaves its resampling loop; with N = 1
\* it never does.
C18_ResetTerminates ==
    /\ (pc = "reset_loop" /\ env.N >= 2) ~> (pc # "reset_loop")
    /\ [][pc = "reset_loop" /\ env.N = 1 => pc' = "reset_loop"]_vars

\* C18 witness: reset on a used environment of size 3 drew the goal as start_state
\* and has to draw again
C18_Witness ==
    /\ pc = "reset_loop" /\ env.N = 3 /\ start_state = env.goal_state
    /\ env.state # None /\ env.steps_taken > 0

\* C15: the monotonous policy reverses exactly at the wall its direction points to:
\* going left at state 0 it stores right and returns right, going right at state
\* N - 1 it stores left and returns left; anywhere else it returns the stored
\* direction and leaves it as it is.
C15_MonotonousFlip ==
    [][pc = "loop" /\ policy_fn = "monotonous_policy" /\ StepTaken =>
          LET dir == globals.monotonous_direction
          IN  IF dir = 0 /\ state = 0
              THEN globals'.monotonous_direction = 1 /\ ret'.action = 1
              ELSE IF dir = 1 /\ state = env.N - 1
              THEN globals'.monotonous_direction = 0 /\ ret'.action = 0
              ELSE /\ globals'.monotonous_direction = dir
                   /\ ret'.action = dir]_vars

\* C15 witness: on 3 cells with the goal in cell 2 the agent went left from cell 1,
\* turned at the left wall and is back in cell 1 heading right
C15_Witness ==
    /\ pc = "loop" /\ policy_fn = "monotonous_policy" /\ env.N = 3
    /\ env.goal_state = 2 /\ t = 2 /\ state = 1
    /\ globals.monotonous_direction = 1 /\ ret.action = 1

\* C17: a wildcard decision after the first step aims at origin + direction * extent
\* clamped to the grid. On the target, direction +1 becomes -1 with the same extent
\* and direction -1 becomes +1 with the extent one larger; off the target neither
\* changes. The action is right below the target, left above it, and the updated
\* direction on it. On 10 cells with origin 4 the second decision finds the agent
\* on its target 5 and leaves direction -1, extent 1, that is the next target 3.
C17_WildcardLaterDecisions ==
    [][pc = "loop" /\ policy_fn = "wildcard_policy" /\ StepTaken
        /\ env.steps_taken > 0 =>
          LET origin == globals.wildcard_origin
              direction == globals.wildcard_direction
              extent == globals.wildcard_extent
              raw == origin + direction * extent
              target == IF raw < 0 THEN 0 ELSE IF raw > env.N - 1 THEN env.N - 1 ELSE raw
          IN  /\ (state = target /\ direction = 1) =>
                    /\ globals'.wildcard_direction = -1
                    /\ globals'.wildcard_extent = extent
              /\ (state = target /\ direction = -1) =>
                    /\ globals'.wildcard_direction = 1
                    /\ globals'.wildcard_extent = extent + 1
              /\ state # target =>
                    /\ globals'.wildcard_direction = direction
                    /\ globals'.wildcard_extent = extent
              /\ direction \in {-1, 1}
              /\ state < target => ret'.action = 1
              /\ state > target => ret'.action = 0
              /\ state = target =>
                    ret'.action = (IF globals'.wildcard_direction = 1 THEN 1 ELSE 0)
              /\ (env.N = 10 /\ origin = 4 /\ env.steps_taken = 1) =>
                    /\ target = 5 /\ state = 5
                    /\ globals'.wildcard_extent = 1
                    /\ origin + globals'.wildcard_direction * globals'.wildcard_extent = 3]_vars

\* C17 witness: on 10 cells from origin 4 the agent reached its target 5, came back
\* to its target 3, where the sweep widened to extent 2, and stepped right to cell 4
C17_Witness ==
    /\ pc = "loop" /\ policy_fn = "wildcard_policy" /\ env.N = 10
    /\ globals.wildcard_origin = 4 /\ globals.wildcard_extent = 2
    /\ globals.wildcard_direction = 1 /\ t = 4 /\ state = 4 /\ ret.action = 1

\* C19: on 10 cells with step_limit 100 a wildcard episode of run_episode is still
\* open only while fewer than 82 steps were taken, and it ends on the goal: last
\* reward +10.0, at most 82 steps, a return without the -100.0 penalty.
C19_WildcardReachesGoal ==
    [][pc = "loop" /\ policy_fn = "wildcard_policy" /\ env.N = ExperimentN
        /\ env.step_limit = ExperimentLimit /\ StepTaken =>
          /\ t < 82
          /\ pc' # "loop" =>
                /\ ret'.reward = GoalReward /\ ret'.done
                /\ env'.state = env'.goal_state
                /\ result'[2] = env'.steps_taken /\ result'[2] <= 82
                /\ result'[1] > TimeoutPenalty]_vars

\* C19 witness: a wildcard episode on 10 cells with step_limit 100 that needed all
\* of 82 steps to reach the goal
C19_Witness ==
    /\ pc = "idle" /\ env.N = ExperimentN /\ env.step_limit = ExperimentLimit
    /\ globals.wildcard_origin # Unset /\ ret.op = "step" /\ ret.reward = GoalReward
    /\ result[2] = 82 /\ env.steps_taken = 82

\* C20: a monotonous step always changes the position (the agent never runs into a
\* wall), an open monotonous episode has taken fewer than 2N - 3 steps, and with
\* step_limit >= 2N - 3 the episode ends on the goal with +10.0 after at most
\* 2N - 3 steps, never with the -100.0 penalty.
C20_MonotonousReachesGoal ==
    [][pc = "loop" /\ policy_fn = "monotonous_policy" /\ StepTaken
        /\ env.step_limit >= 2 * env.N - 3 =>
          /\ env'.state # env.state
          /\ t < 2 * env.N - 3
          /\ pc' # "loop" =>
                /\ ret'.reward = GoalReward /\ ret'.done
                /\ env'.state = env'.goal_state
                /\ result'[2] <= 2 * env.N - 3
                /\ result'[1] > TimeoutPenalty]_vars

\* C20 witness: a monotonous episode on 10 cells with step_limit 17 that reached
\* the goal with its 17th step
C20_Witness ==
    /\ pc = "idle" /\ env.N = 10 /\ env.step_limit = 17
    /\ globals.monotonous_direction # Unset /\ globals.wildcard_origin = Unset
    /\ ret.op = "step" /\ ret.reward = GoalReward /\ ret.done
    /\ result[2] = 17 /\ env.steps_taken = 17

====
